---- MODULE Spec2Model ----
(***************************************************************************)
(* A model of the DreamBerd-rs tree-walking evaluator: the Pointer         *)
(* aliasing model (src/types/pointer.rs) and the evaluator                 *)
(* (src/interpreter.rs).                                                   *)
(*                                                                         *)
(* Storage is a heap of cells; a cell stands for one Rc allocation, either *)
(* an Rc<Value> (owned storage) or an Rc<RefCell<Value>> (shared storage). *)
(* A Pointer is a variant name together with the cell its Rc points at.    *)
(* Environments are an arena of frames, each with a parent index.          *)
(***************************************************************************)
EXTENDS Integers, Sequences, FiniteSets, TLC

VARIABLES heap, frames, last, steps, crashed

vars == <<heap, frames, last, steps, crashed>>

(* ------------------------------ bounds --------------------------------- *)

MaxSteps == 3

\* the deepest Equal(N) the runs try
MaxDepth == 3

(* ------------------------------ values --------------------------------- *)

Undefined == [tag |-> "Undefined"]
Number(n, d) == [tag |-> "Number", num |-> n, den |-> d]
Boolean(b) == [tag |-> "Boolean", b |-> b]
Keyword(k) == [tag |-> "Keyword", kw |-> k]
Function(args, body) == [tag |-> "Function", params |-> args, body |-> body]
Object(map) == [tag |-> "Object", map |-> map]

VarType == {"ConstConst", "ConstVar", "VarConst", "VarVar"}

\* ConstVar and VarVar wrap Rc<RefCell<Value>>, the other two wrap Rc<Value>
IsShared(vt) == vt \in {"ConstVar", "VarVar"}

\* the first word of a variant is the binding's mutability
IsReassignable(vt) == vt \in {"VarConst", "VarVar"}

Pointer(vt, cell) == [vt |-> vt, cell |-> cell]

\* the absence of a Pointer (Option::None)
NoPtr == [vt |-> "None", cell |-> 0]

\* identifiers that name bindings, parameters and object keys
Names == {"if", "delete", "true", "false", "maybe", "object", "x", "y", "o", "f", "k", "call", "self"}

\* identifiers that the environment resolves as number literals
NumLit == {"0", "1", "2"}

NumOf(ident) == CASE ident = "0" -> 0 [] ident = "1" -> 1 [] OTHER -> 2

EmptyMap == [n \in Names |-> NoPtr]

(* --------------------------- syntax nodes ------------------------------ *)

Ident(name) == [tag |-> "Ident", name |-> name]
Declare(vt, ident, value) == [tag |-> "Declare", vt |-> vt, ident |-> ident, value |-> value]
Operation(lhs, op, rhs) == [tag |-> "Operation", lhs |-> lhs, op |-> op, rhs |-> rhs]
Block(statements) == [tag |-> "Block", stmts |-> statements]
Call(func, args) == [tag |-> "Call", func |-> func, args |-> args]
FunctionLit(args, body) == [tag |-> "Function", params |-> args, body |-> body]
Statement(content) == [tag |-> "Statement", content |-> content]

\* operators: Equal carries its depth, the others carry 0
Op(name, n) == [name |-> name, n |-> n]
Equal(n) == Op("Equal", n)
Dot == Op("Dot", 0)
Div == Op("Div", 0)
Arrow == Op("Arrow", 0)

(* --------------------------- machine state ----------------------------- *)

\* m = [heap, frames, trace]: the storage, the frame arena, and the nodes
\* evaluated so far by the running call, in order
Ok(m, p) == [m |-> m, res |-> p, out |-> "ok"]
Err(m) == [m |-> m, res |-> NoPtr, out |-> "err"]
Panic(m) == [m |-> m, res |-> NoPtr, out |-> "panic"]

\* Rc::new / rc_mut_new: a fresh cell at the end of the heap
NewCell(m) == Len(m.heap) + 1
Alloc(m, v) == [m EXCEPT !.heap = Append(@, v)]

\* State.undefined: every State holds the owned-fixed Undefined Pointer
undefined == Pointer("ConstConst", 1)

clone_inner(m, p) == m.heap[p.cell]

\* Pointer::from(Value)
from(m, v) == Ok(Alloc(m, v), Pointer("ConstConst", NewCell(m)))

\* a convert that always hands back the storage it was given
convert_reuse(m, p, vt) == [m |-> m, ptr |-> Pointer(vt, p.cell)]

convert(m, p, vt) ==
    IF IsShared(p.vt) = IsShared(vt)
    THEN [m |-> m, ptr |-> Pointer(vt, p.cell)]
    ELSE [m |-> Alloc(m, clone_inner(m, p)), ptr |-> Pointer(vt, NewCell(m))]

\* Pointer::as_const / with_ref: the current value behind the handle
as_const(m, p) == clone_inner(m, p)

\* Pointer::as_var: the RefCell behind the handle.  A shared handle yields its
\* own cell; an owned handle wraps an Rc<Value>, which holds no RefCell, so the
\* value is copied into a fresh one (as convert does for owned -> shared)
as_var(m, p) ==
    IF IsShared(p.vt)
    THEN [m |-> m, cell |-> p.cell]
    ELSE [m |-> Alloc(m, clone_inner(m, p)), cell |-> NewCell(m)]

\* Pointer::assign: overwrite the target; only a reassignable handle accepts it.
\* A shared cell is overwritten in place; an owned handle is re-pointed, which
\* changes the caller's local handle only
assign(m, lhs, rhs) ==
    IF ~IsReassignable(lhs.vt) THEN [m |-> m, ok |-> FALSE]
    ELSE IF IsShared(lhs.vt)
         THEN [m |-> [m EXCEPT !.heap[lhs.cell] = clone_inner(m, rhs)], ok |-> TRUE]
         ELSE [m |-> m, ok |-> TRUE]

\* Value::bool: the three-valued truth of a value
bool(v) == IF v.tag = "Boolean" THEN v.b ELSE "False"

\* Value::eq with a recursion depth: objects are compared key by key, the
\* values behind the keys only while depth remains
RECURSIVE ValueEq(_, _, _, _)
ValueEq(m, a, b, precision) ==
    IF a.tag # b.tag THEN FALSE
    ELSE IF a.tag # "Object" THEN a = b
    ELSE \A k \in Names :
            /\ (a.map[k] = NoPtr) = (b.map[k] = NoPtr)
            /\ (a.map[k] # NoPtr /\ precision > 1) =>
                   ValueEq(m, m.heap[a.map[k].cell], m.heap[b.map[k].cell], precision - 1)

\* Pointer::eq
eq(m, lhs, rhs, precision) ==
    from(m, Boolean(IF ValueEq(m, clone_inner(m, lhs), clone_inner(m, rhs), precision)
                    THEN "True" ELSE "False"))

\* Value / Value on Numbers kept as fractions num/den; a zero divisor gives the
\* float's infinity or NaN, written with den = 0
ValueDiv(a, b) ==
    IF a.tag = "Number" /\ b.tag = "Number"
    THEN IF b.num = 0 \/ a.den = 0 \/ b.den = 0
         THEN Number(IF a.num > 0 THEN 1 ELSE IF a.num < 0 THEN -1 ELSE 0, 0)
         ELSE LET n == a.num * b.den * (IF b.num < 0 THEN -1 ELSE 1)
                  d == a.den * (IF b.num < 0 THEN -b.num ELSE b.num)
                  RECURSIVE gcd(_, _)
                  gcd(x, y) == IF y = 0 THEN x ELSE gcd(y, x % y)
                  g == gcd(IF n < 0 THEN -n ELSE n, d)
              IN  Number(n \div g, d \div g)
    ELSE Undefined

\* a division without the test for a zero divisor
div_unchecked(m, lhs, rhs) == from(m, ValueDiv(clone_inner(m, lhs), clone_inner(m, rhs)))

\* impl Div for Pointer
div(m, lhs, rhs) ==
    IF clone_inner(m, rhs) = Number(0, 1)
    THEN from(m, Undefined)
    ELSE from(m, ValueDiv(clone_inner(m, lhs), clone_inner(m, rhs)))

(* ----------------------------- environment ----------------------------- *)

\* State::from_parent: a new frame at the end of the arena
from_parent(m, parent) ==
    [m EXCEPT !.frames = Append(@, [vars |-> EmptyMap, parent |-> parent])]
NewFrame(m) == Len(m.frames) + 1

\* a frame is freed when the evaluation that created it returns
DropFrames(m, keep) == [m EXCEPT !.frames = SubSeq(@, 1, keep)]

\* State::insert: always into the given (innermost) frame
insert(m, env, ident, ptr) == [m EXCEPT !.frames[env].vars[ident] = ptr]

\* State::delete: from the given (innermost) frame only
delete(m, env, ident) ==
    IF ident \in Names THEN [m EXCEPT !.frames[env].vars[ident] = NoPtr] ELSE m

RECURSIVE Lookup(_, _, _)
Lookup(fr, env, ident) ==
    IF env = 0 \/ ident \notin Names THEN NoPtr
    ELSE IF fr[env].vars[ident] # NoPtr THEN fr[env].vars[ident]
    ELSE Lookup(fr, fr[env].parent, ident)

\* State::get: walk outward from env; an unbound number literal is the Number it
\* spells, any other unbound identifier is Undefined
get(m, env, ident) ==
    LET found == Lookup(m.frames, env, ident)
    IN  IF found # NoPtr THEN Ok(m, found)
        ELSE IF ident \in NumLit THEN from(m, Number(NumOf(ident), 1))
        ELSE Ok(m, undefined)

(* ------------------------------ evaluator ------------------------------ *)

RECURSIVE inner_interpret(_, _, _)
RECURSIVE interpret_operation(_, _, _, _, _)
RECURSIVE interpret_function(_, _, _, _)
RECURSIVE BlockLoop(_, _, _, _)
RECURSIVE BindArgs(_, _, _, _, _, _)

\* a block that drops the `?` on the statements before the last one
BlockLoop_keepgoing(statements, i, env, m) ==
    LET r == inner_interpret(statements[i], env, m)
    IN  IF i = Len(statements) THEN r
        ELSE BlockLoop(statements, i + 1, env, r.m)

\* Syntax::Block, after the child frame is made: the statements before the last
\* one run for effect, the last one gives the result, `?` stops at an error
BlockLoop(statements, i, env, m) ==
    LET r == inner_interpret(statements[i], env, m)
    IN  IF r.out # "ok" \/ i = Len(statements) THEN r
        ELSE BlockLoop(statements, i + 1, env, r.m)

\* a member access that makes the slot and forgets to insert it
DotIdent_noinsert(m, lhs_eval, ident) ==
    LET inner_var == as_var(m, lhs_eval)
        obj == inner_var.m.heap[inner_var.cell].map
        ptr == convert(inner_var.m, undefined, "VarVar")
    IN  IF obj[ident] # NoPtr THEN Ok(inner_var.m, obj[ident]) ELSE Ok(ptr.m, ptr.ptr)

\* a member access that inserts the environment's Undefined handle as it is
DotIdent_unconverted(m, lhs_eval, ident) ==
    LET inner_var == as_var(m, lhs_eval)
        obj == inner_var.m.heap[inner_var.cell].map
    IN  IF obj[ident] # NoPtr
        THEN Ok(inner_var.m, obj[ident])
        ELSE Ok([inner_var.m EXCEPT !.heap[inner_var.cell].map[ident] = undefined], undefined)

\* the member access special case: the right identifier is a key of the object
DotIdent(m, lhs_eval, ident) ==
    LET inner_var == as_var(m, lhs_eval)
        obj == inner_var.m.heap[inner_var.cell].map
        ptr == convert(inner_var.m, undefined, "VarVar")
    IN  IF obj[ident] # NoPtr
        THEN Ok(inner_var.m, obj[ident])
        ELSE Ok([ptr.m EXCEPT !.heap[inner_var.cell].map[ident] = ptr.ptr], ptr.ptr)

\* an Equal that still assigns at depth 2
OperationEqual_assigns2(m, lhs_eval, rhs_eval, n) ==
    IF n <= 2
    THEN LET a == assign(m, lhs_eval, rhs_eval)
         IN  IF a.ok THEN Ok(a.m, rhs_eval) ELSE Err(a.m)
    ELSE eq(m, lhs_eval, rhs_eval, n - 1)

\* Operation::Equal(1) assigns, Operation::Equal(precision) compares
OperationEqual(m, lhs_eval, rhs_eval, n) ==
    IF n = 1
    THEN LET a == assign(m, lhs_eval, rhs_eval)
         IN  IF a.ok THEN Ok(a.m, rhs_eval) ELSE Err(a.m)
    ELSE eq(m, lhs_eval, rhs_eval, n - 1)

\* Operation::Arrow => todo!(): a panic, which unwinds the whole evaluator
OperationArrow(m, lhs_eval, rhs_eval) == Panic(m)

\* Operation::Dot on evaluated operands (Value::dot): no value of this model
\* has the member asked for
OperationDot(m, lhs_eval, rhs_eval) == Err(m)

interpret_operation(lhs, op, rhs, env, m) ==
    LET l == inner_interpret(lhs, env, m)
    IN  IF l.out # "ok" THEN l
        ELSE IF as_const(l.m, l.res).tag = "Object" /\ op = Dot /\ rhs.tag = "Ident"
        THEN DotIdent(l.m, l.res, rhs.name)
        ELSE LET r == inner_interpret(rhs, env, l.m)
             IN  IF r.out # "ok" THEN r
                 ELSE CASE op.name = "Equal" -> OperationEqual(r.m, l.res, r.res, op.n)
                        [] op.name = "Div" -> div(r.m, l.res, r.res)
                        [] op.name = "Dot" -> OperationDot(r.m, l.res, r.res)
                        [] op.name = "Arrow" -> OperationArrow(r.m, l.res, r.res)

\* an If without the maybe-body
IfBranch_nomaybe(b, nargs) ==
    IF b = "True" THEN 2
    ELSE IF nargs >= 3 THEN 3
    ELSE 0

\* Keyword::If: which argument is the selected body (0: none, Undefined)
IfBranch(b, nargs) ==
    IF b = "True" THEN 2
    ELSE IF b = "Maybe" /\ nargs >= 4 THEN 4
    ELSE IF nargs >= 3 THEN 3
    ELSE 0

\* a Delete that looks at its first argument only
DeleteMatches_first(args) == Len(args) >= 1 /\ args[1].tag = "Ident"

\* Keyword::Delete: `if let [Syntax::Ident(key)] = args`
DeleteMatches(args) == Len(args) = 1 /\ args[1].tag = "Ident"

\* a call whose frame hangs off the root frame, where functions are defined
CallParent_root(state) == 1

\* Value::Function: the parent of the frame the body runs in
CallParent(state) == state

\* Value::Function: each parameter gets its argument, evaluated in the caller's
\* environment, or Undefined when the argument is missing
BindArgs(fn_args, args, idx, state, inner_state, m) ==
    IF idx > Len(fn_args) THEN Ok(m, undefined)
    ELSE LET arg_eval == IF idx <= Len(args)
                         THEN inner_interpret(args[idx], state, m)
                         ELSE Ok(m, undefined)
         IN  IF arg_eval.out # "ok" THEN arg_eval
             ELSE BindArgs(fn_args, args, idx + 1, state, inner_state,
                           insert(arg_eval.m, inner_state, fn_args[idx], arg_eval.res))

interpret_function(func, args, state, m) ==
    LET func_eval == as_const(m, func)
        keep == Len(m.frames)
        leave(r) == [r EXCEPT !.m = DropFrames(@, keep)]
    IN  CASE func_eval.tag = "Keyword" /\ func_eval.kw = "If" ->
               IF Len(args) < 2 THEN Err(m)
               ELSE LET c == inner_interpret(args[1], state, m)
                        sel == IfBranch(bool(as_const(c.m, c.res)), Len(args))
                    IN  IF c.out # "ok" THEN c
                        ELSE IF sel = 0 THEN Ok(c.m, undefined)
                        ELSE inner_interpret(args[sel], state, c.m)
          [] func_eval.tag = "Keyword" /\ func_eval.kw = "Delete" ->
               IF DeleteMatches(args)
               THEN Ok(delete(m, state, args[1].name), undefined)
               ELSE Ok(m, undefined)
          [] func_eval.tag = "Object" ->
               IF func_eval.map["call"] = NoPtr THEN Err(m)
               ELSE leave(interpret_function(func_eval.map["call"], args, NewFrame(m),
                              insert(from_parent(m, state), NewFrame(m), "self", func)))
          [] func_eval.tag = "Function" ->
               LET bound == BindArgs(func_eval.params, args, 1, state, NewFrame(m),
                                     from_parent(m, CallParent(state)))
               IN  IF bound.out # "ok" THEN leave(bound)
                   ELSE leave(inner_interpret(func_eval.body, NewFrame(m), bound.m))
          [] OTHER -> Err(m)

inner_interpret(src, state, m0) ==
    LET m == [m0 EXCEPT !.trace = Append(@, [node |-> src, env |-> state])]
    IN  CASE src.tag = "Statement" ->
               LET r == inner_interpret(src.content, state, m)
               IN  IF r.out # "ok" THEN r ELSE Ok(r.m, undefined)
          [] src.tag = "Operation" ->
               interpret_operation(src.lhs, src.op, src.rhs, state, m)
          [] src.tag = "Block" ->
               LET r == IF Len(src.stmts) = 0
                        THEN Ok(from_parent(m, state), undefined)
                        ELSE BlockLoop(src.stmts, 1, NewFrame(m), from_parent(m, state))
               IN  [r EXCEPT !.m = DropFrames(@, Len(m.frames))]
          [] src.tag = "Declare" ->
               LET val == inner_interpret(src.value, state, m)
                   c == convert(val.m, val.res, src.vt)
               IN  IF val.out # "ok" THEN val
                   ELSE Ok(insert(c.m, state, src.ident, c.ptr), undefined)
          [] src.tag = "Call" ->
               LET func == get(m, state, src.func)
               IN  interpret_function(func.res, src.args, state, func.m)
          [] src.tag = "Ident" -> get(m, state, src.name)
          [] src.tag = "Function" -> from(m, Function(src.params, src.body))

(* ------------------------------- the run ------------------------------- *)

\* State::new: the root frame binds the built-in keywords and constants
RootVars ==
    [n \in Names |->
        CASE n = "if" -> Pointer("ConstConst", 2)
          [] n = "delete" -> Pointer("ConstConst", 3)
          [] n = "true" -> Pointer("ConstConst", 4)
          [] n = "false" -> Pointer("ConstConst", 5)
          [] n = "maybe" -> Pointer("ConstConst", 6)
          [] n = "object" -> Pointer("ConstConst", 7)
          [] OTHER -> NoPtr]

RootHeap ==
    << Undefined, Keyword("If"), Keyword("Delete"),
       Boolean("True"), Boolean("False"), Boolean("Maybe"), Object(EmptyMap) >>

NoStep == [node |-> Ident("undefined"), res |-> NoPtr, out |-> "init"]

Init ==
    /\ heap = RootHeap
    /\ frames = << [vars |-> RootVars, parent |-> 0] >>
    /\ last = [node |-> NoStep.node, res |-> NoPtr, out |-> "init", trace |-> << >>,
               pre |-> [heap |-> RootHeap, frames |-> << [vars |-> RootVars, parent |-> 0] >>],
               prev |-> NoStep]
    /\ steps = 0
    /\ crashed = FALSE

\* one statement of the program, evaluated in the root environment; `last`
\* records what was evaluated, what came back and the state it started from
Interpret(src) ==
    /\ ~crashed
    /\ steps < MaxSteps
    /\ LET r == inner_interpret(src, 1, [heap |-> heap, frames |-> frames, trace |-> << >>])
       IN  /\ heap' = r.m.heap
           /\ frames' = r.m.frames
           /\ last' = [node |-> src, res |-> r.res, out |-> r.out, trace |-> r.m.trace,
                       pre |-> [heap |-> heap, frames |-> frames],
                       prev |-> [node |-> last.node, res |-> last.res, out |-> last.out]]
           /\ crashed' = (r.out = "panic")
    /\ steps' = steps + 1

DeclareStep(var_type, ident, value) == Interpret(Declare(var_type, ident, value))
OperationStep(lhs, op, rhs) == Interpret(Operation(lhs, op, rhs))
BlockStep(statements) == Interpret(Block(statements))
CallStep(func, args) == Interpret(Call(func, args))

(* ---- declarations and assignments of plain values ---- *)

ConvertSources == {"1", "x"}

NextConvert ==
    \/ \E vt \in VarType, id \in {"x", "y"}, s \in ConvertSources :
          DeclareStep(vt, id, Ident(s))
    \/ \E id \in {"x", "y"} :
          OperationStep(Ident(id), Equal(1), Ident("2"))

SpecConvert == Init /\ [][NextConvert]_vars

(* ---- objects and their members ---- *)

MemberKeys == {"k", "x"}

NextMember ==
    \/ \E vt \in VarType, s \in {"object", "o"} :
          DeclareStep(vt, "o", Ident(s))
    \/ \E obj \in {"o", "object"}, k \in MemberKeys :
          OperationStep(Ident(obj), Dot, Ident(k))
    \/ \E k \in MemberKeys :
          OperationStep(Operation(Ident("o"), Dot, Ident(k)), Equal(1), Ident("1"))

SpecMember == Init /\ [][NextMember]_vars

(* ---- binary operators on numbers and other values ---- *)

LeftOperands == {"x", "2", "object"}
RightOperands == {"x", "0", "2"}

NextOperation ==
    \/ \E vt \in {"ConstConst", "ConstVar", "VarVar"} :
          DeclareStep(vt, "x", Operation(Ident("1"), Div, Ident("2")))
    \/ DeclareStep("VarConst", "x", Ident("0"))
    \/ \E a \in {"x", "2"}, b \in {"x", "0"}, n \in 1..MaxDepth :
          OperationStep(Ident(a), Equal(n), Ident(b))
    \/ \E a \in LeftOperands, b \in RightOperands :
          OperationStep(Ident(a), Div, Ident(b))
    \/ OperationStep(Ident("x"), Arrow, Ident("0"))

SpecOperation == Init /\ [][NextOperation]_vars

(* ---- the three-valued if ---- *)

\* the bodies of an if: then, else, maybe; either plain values or declarations
IfBody(style, i) ==
    LET lit == CASE i = 1 -> "0" [] i = 2 -> "1" [] OTHER -> "2"
    IN  IF style = "value" THEN Ident(lit) ELSE Declare("VarVar", "x", Ident(lit))

IfArgs(cond, style, n) ==
    SubSeq(<< Ident(cond), IfBody(style, 1), IfBody(style, 2), IfBody(style, 3) >>, 1, n)

NextIf ==
    \E cond \in {"true", "false", "maybe"}, style \in {"value", "declare"}, n \in 0..4 :
        CallStep("if", IfArgs(cond, style, n))

SpecIf == Init /\ [][NextIf]_vars

(* ---- blocks, functions and delete ---- *)

FnX == FunctionLit(<< >>, Ident("x"))

BlockValue ==
    << Declare("VarVar", "x", Ident("1")),
       Operation(Ident("x"), Equal(1), Ident("2")),
       Operation(Ident("x"), Div, Ident("2")) >>

BlockError ==
    << Operation(Ident("y"), Equal(1), Ident("1")),
       Call("if", << >>),
       Operation(Ident("y"), Equal(1), Ident("2")) >>

BlockCall == << Declare("VarVar", "x", Ident("2")), Call("f", << >>) >>

BlockDefine ==
    << Declare("VarVar", "x", Ident("2")), Operation(Ident("f"), Equal(1), FnX) >>

BlockDelete ==
    << Declare("VarVar", "x", Ident("2")), Call("delete", << Ident("x") >>), Ident("x") >>

Blocks == {<< >>, BlockValue, BlockError, BlockCall, BlockDefine, BlockDelete}

DeleteArgs == {<< Ident("x") >>, << >>, << Ident("x"), Ident("y") >>, << FnX >>}

NextBlock ==
    \/ \E d \in {<<"x", Ident("1")>>, <<"y", Ident("0")>>, <<"f", FnX>>} :
          DeclareStep("VarVar", d[1], d[2])
    \/ \E b \in Blocks : BlockStep(b)
    \/ \E args \in DeleteArgs : CallStep("delete", args)
    \/ CallStep("f", << >>)

SpecBlock == Init /\ [][NextBlock]_vars

(* ---- the whole program ---- *)

Next == NextConvert \/ NextMember \/ NextOperation \/ NextIf \/ NextBlock

Spec == Init /\ [][Next]_vars

(* ---- what the claims read ---- *)

\* the binding of an identifier in the root chain before / after the last step
PreLookup(id) == Lookup(last.pre.frames, 1, id)
NowLookup(id) == Lookup(frames, 1, id)

\* the Pointer that evaluating Ident(s) gave the last step
SrcPtr(s) ==
    IF PreLookup(s) # NoPtr THEN PreLookup(s)
    ELSE IF s \in NumLit THEN Pointer("ConstConst", Len(last.pre.heap) + 1)
    ELSE undefined

\* no cell that existed before the last step has changed
OldCellsKept == \A c \in 1..Len(last.pre.heap) : heap[c] = last.pre.heap[c]

(* C1: convert(p, t) yields a handle of combination t whose value equals p's    *)
(* current value; with equal shared-ness it reuses p's storage, so an in-place  *)
(* mutation through one handle is read through the other; with different       *)
(* shared-ness the storage is fresh and holds a copy, so a mutation of the      *)
(* shared cell is not read through the owned handle, and the other way round.   *)
ConvertKeepsOrCopiesStorage ==
    /\ (last.node.tag = "Declare" /\ last.node.value.tag = "Ident") =>
          LET p == SrcPtr(last.node.value.name)
              q == frames[1].vars[last.node.ident]
          IN  /\ last.out = "ok"
              /\ q.vt = last.node.vt
              /\ heap[q.cell] = heap[p.cell]
              /\ OldCellsKept
              /\ IF IsShared(p.vt) = IsShared(q.vt)
                 THEN q.cell = p.cell
                 ELSE q.cell > Len(last.pre.heap) /\ q.cell # p.cell
    /\ ( /\ last.prev.node.tag = "Declare"
         /\ last.prev.node.value = Ident("x")
         /\ last.prev.node.ident = "y"
         /\ last.node.tag = "Operation"
         /\ last.node.op = Equal(1)
         /\ last.node.lhs \in {Ident("x"), Ident("y")}
         /\ last.node.rhs.tag = "Ident"
         /\ last.node.rhs.name \in NumLit
         /\ PreLookup("x") # NoPtr
         /\ PreLookup(last.node.lhs.name).vt = "VarVar" ) =>
          LET written == last.node.lhs.name
              other == IF written = "x" THEN "y" ELSE "x"
              w == NowLookup(written)
              o == NowLookup(other)
          IN  /\ last.out = "ok"
              /\ heap[w.cell] = heap[last.res.cell]
              /\ IF IsShared(o.vt)
                 THEN heap[o.cell] = heap[last.res.cell]
                 ELSE heap[o.cell] = last.pre.heap[o.cell]

\* y was declared from a shared x as an owned snapshot, x was then overwritten
\* in place, and y still reads the old value
ConvertCopyWitness ==
    /\ last.prev.node = Declare("ConstConst", "y", Ident("x"))
    /\ last.node = Operation(Ident("x"), Equal(1), Ident("2"))
    /\ last.out = "ok"
    /\ PreLookup("x").vt = "VarVar"
    /\ heap[NowLookup("x").cell] = Number(2, 1)
    /\ heap[NowLookup("y").cell] = Number(1, 1)

\* the last step was the member access obj.k on a handle whose value is an Object
IsMemberAccess(step, pre_heap, pre_frames) ==
    /\ step.node.tag = "Operation"
    /\ step.node.op = Dot
    /\ step.node.lhs.tag = "Ident"
    /\ step.node.rhs.tag = "Ident"
    /\ Lookup(pre_frames, 1, step.node.lhs.name) # NoPtr
    /\ pre_heap[Lookup(pre_frames, 1, step.node.lhs.name).cell].tag = "Object"

LastIsMemberAccess == IsMemberAccess(last, last.pre.heap, last.pre.frames)

\* the step before the last one was the same member access, on the same handle
PrevWasSameAccess ==
    /\ last.prev.node = last.node
    /\ last.prev.out = "ok"

AccessedCell ==
    IF IsShared(PreLookup(last.node.lhs.name).vt)
    THEN PreLookup(last.node.lhs.name).cell
    ELSE Len(last.pre.heap) + 1

\* what a member access does, with the slot's combination left open
MemberAccessMakes(slot_vt) ==
    LastIsMemberAccess =>
        LET o == PreLookup(last.node.lhs.name)
            k == last.node.rhs.name
            was == last.pre.heap[o.cell].map[k]
        IN  /\ last.out = "ok"
            /\ OldCellsKept \/ (was = NoPtr /\ IsShared(o.vt))
            /\ last.trace = << [node |-> last.node, env |-> 1],
                               [node |-> last.node.lhs, env |-> 1] >>
            /\ IF was # NoPtr
               THEN /\ last.res = was
                    /\ Len(heap) = Len(last.pre.heap) + (IF IsShared(o.vt) THEN 0 ELSE 1)
               ELSE /\ last.res.vt = slot_vt
                    /\ last.res.cell = Len(heap)
                    /\ last.res.cell > Len(last.pre.heap)
                    /\ heap[last.res.cell] = Undefined
                    /\ heap[AccessedCell].map[k] = last.res
                    /\ \A c \in 1..Len(last.pre.heap) :
                          c # AccessedCell => heap[c] = last.pre.heap[c]

(* C10 as first stated: the slot made by auto-vivification is a shared-fixed    *)
(* (ConstVar) Pointer holding Undefined.                                        *)
VivifiedSlotIsSharedFixed == MemberAccessMakes("ConstVar")

(* C10: the slot made by auto-vivification is a shared-reassignable (VarVar)    *)
(* Pointer holding Undefined: with the key absent, that Pointer is made in      *)
(* fresh storage, inserted under the key and returned; with the key present,    *)
(* the stored Pointer is returned, nothing is inserted and the identifier is    *)
(* not evaluated as an expression.                                              *)
VivifiedSlotIsSharedReassignable == MemberAccessMakes("VarVar")

\* a member access on a shared object has just made the slot for an absent key
VivifiedSlotWitness ==
    /\ LastIsMemberAccess
    /\ IsShared(PreLookup(last.node.lhs.name).vt)
    /\ last.pre.heap[PreLookup(last.node.lhs.name).cell].map[last.node.rhs.name] = NoPtr
    /\ heap[PreLookup(last.node.lhs.name).cell].map[last.node.rhs.name] = last.res
    /\ last.res.vt = "VarVar"

\* the last step was  a op b  on two identifiers
LastIsOperation(name) ==
    /\ last.node.tag = "Operation"
    /\ last.node.op.name = name
    /\ last.node.lhs.tag = "Ident"
    /\ last.node.rhs.tag = "Ident"

\* the operands' handles: the right literal is made after the left one
LhsPtr == SrcPtr(last.node.lhs.name)
RhsPtr ==
    IF PreLookup(last.node.rhs.name) = NoPtr /\ last.node.rhs.name \in NumLit
       /\ PreLookup(last.node.lhs.name) = NoPtr /\ last.node.lhs.name \in NumLit
    THEN Pointer("ConstConst", Len(last.pre.heap) + 2)
    ELSE SrcPtr(last.node.rhs.name)

(* C3: Equal(1) assigns: it overwrites the left Pointer's target and returns    *)
(* the right value; Equal(N) with N >= 2 is an equality test that returns an    *)
(* owned-fixed Boolean Pointer and never assigns: the left target, the right    *)
(* target and every environment binding are as they were.                       *)
EqualAssignsOnlyAtDepthOne ==
    LastIsOperation("Equal") =>
        IF last.node.op.n = 1
        THEN /\ (last.out = "ok") = IsReassignable(LhsPtr.vt)
             /\ last.out = "ok" =>
                   /\ last.res = RhsPtr
                   /\ LhsPtr.vt = "VarVar" => heap[LhsPtr.cell] = heap[RhsPtr.cell]
        ELSE /\ last.out = "ok"
             /\ last.res.vt = "ConstConst"
             /\ last.res.cell > Len(last.pre.heap)
             /\ heap[last.res.cell].tag = "Boolean"
             /\ frames = last.pre.frames
             /\ OldCellsKept

\* a shared x was compared at depth 2 with a different value and still holds
\* its own value; the answer is False
EqualTestWitness ==
    /\ LastIsOperation("Equal")
    /\ last.node.op.n = 2
    /\ last.node.lhs = Ident("x")
    /\ LhsPtr.vt = "VarVar"
    /\ heap[LhsPtr.cell] # heap[RhsPtr.cell]
    /\ heap[last.res.cell] = Boolean("False")

(* C7: a / b with b's current value the Number zero is an owned-fixed Undefined *)
(* Pointer whatever a is and whatever the operands' combinations are, never a   *)
(* fault or an infinity; with b a non-zero Number and a a Number it is the      *)
(* quotient; neither operand's storage is modified.                             *)
DivisionByZeroIsUndefined ==
    LastIsOperation("Div") =>
        LET a == heap[LhsPtr.cell]
            b == heap[RhsPtr.cell]
            q == heap[last.res.cell]
        IN  /\ last.out = "ok"
            /\ last.res.vt = "ConstConst"
            /\ last.res.cell > Len(last.pre.heap)
            /\ OldCellsKept
            /\ frames = last.pre.frames
            /\ (b.tag = "Number" /\ b.num = 0) => q = Undefined
            /\ (b.tag = "Number" /\ b.num # 0 /\ a.tag = "Number") =>
                  /\ q.tag = "Number"
                  /\ q.den > 0
                  /\ q.num * b.num * a.den = a.num * b.den * q.den

\* a shared x holding a non-zero Number was divided by zero
DivisionByZeroWitness ==
    /\ LastIsOperation("Div")
    /\ last.node = Operation(Ident("x"), Div, Ident("0"))
    /\ IsShared(LhsPtr.vt)
    /\ heap[LhsPtr.cell].tag = "Number"
    /\ heap[LhsPtr.cell].num # 0
    /\ heap[last.res.cell] = Undefined

(* C8: an Operation whose operator is Arrow fails with a "not implemented"      *)
(* error on the evaluator's error channel; it does not crash the evaluator.     *)
ArrowFailsWithError ==
    (last.node.tag = "Operation" /\ last.node.op = Arrow) =>
        (last.out = "err" /\ ~crashed)

\* the nodes the last step evaluated
Evaluated(node) == \E j \in 1..Len(last.trace) : last.trace[j].node = node

(* C5: an If call with at least two arguments evaluates exactly one body and    *)
(* returns its result: True selects the 2nd argument; Maybe with a 4th argument *)
(* selects the 4th and not the 3rd; otherwise the 3rd is selected when present  *)
(* and Undefined is returned when it is absent; with fewer than two arguments   *)
(* the call is an error.                                                        *)
IfSelectsOneBranch ==
    (last.node.tag = "Call" /\ last.node.func = "if") =>
        LET args == last.node.args
            n == Len(args)
            b == last.pre.heap[PreLookup(args[1].name).cell].b
            sel == IF b = "True" THEN 2
                   ELSE IF b = "Maybe" /\ n >= 4 THEN 4
                   ELSE IF n >= 3 THEN 3
                   ELSE 0
        IN  IF n < 2
            THEN /\ last.out = "err"
                 /\ heap = last.pre.heap
                 /\ frames = last.pre.frames
            ELSE /\ last.out = "ok"
                 /\ {i \in 2..n : Evaluated(args[i])} = (IF sel = 0 THEN {} ELSE {sel})
                 /\ sel = 0 => last.res = undefined /\ frames = last.pre.frames
                 /\ (sel # 0 /\ args[sel].tag = "Ident") =>
                       /\ heap[last.res.cell] = Number(sel - 2, 1)
                       /\ frames = last.pre.frames
                 /\ (sel # 0 /\ args[sel].tag = "Declare") =>
                       /\ last.res = undefined
                       /\ heap[NowLookup("x").cell] = Number(sel - 2, 1)

\* the condition was Maybe, four arguments were given, and the value of the
\* maybe-body came back while the else-body was not evaluated
IfMaybeWitness ==
    /\ last.node = Call("if", IfArgs("maybe", "value", 4))
    /\ last.out = "ok"
    /\ heap[last.res.cell] = Number(2, 1)
    /\ Evaluated(last.node.args[4])
    /\ ~Evaluated(last.node.args[3])

\* the value of f before the last step is the function whose body reads x
FIsFnX ==
    /\ PreLookup("f") # NoPtr
    /\ last.pre.heap[PreLookup("f").cell] = Function(<< >>, Ident("x"))

(* C4: a Function value holds its parameters and its body and no environment;   *)
(* its body runs in a new frame whose parent is the calling environment, so a   *)
(* free identifier is resolved in the caller's chain at call time, not where    *)
(* the function was defined.                                                    *)
FreeIdentifiersResolveInCaller ==
    /\ \A c \in 1..Len(heap) :
          heap[c].tag = "Function" => DOMAIN heap[c] = {"tag", "params", "body"}
    /\ (last.node = Block(BlockCall) /\ FIsFnX) =>
          /\ last.out = "ok"
          /\ Len(last.trace) = 5
          /\ last.trace[5] = [node |-> Ident("x"), env |-> 3]
          /\ last.res.cell > Len(last.pre.heap)
          /\ heap[last.res.cell] = Number(2, 1)
    /\ (last.node = Call("f", << >>) /\ FIsFnX) =>
          /\ last.out = "ok"
          /\ last.trace = << [node |-> last.node, env |-> 1],
                             [node |-> Ident("x"), env |-> 2] >>
          /\ last.res = (IF PreLookup("x") # NoPtr THEN PreLookup("x") ELSE undefined)

\* f was defined in the root frame where x is 1, was called from a block whose
\* own x is 2, and gave 2
DynamicScopeWitness ==
    /\ last.node = Block(BlockCall)
    /\ FIsFnX
    /\ PreLookup("x") # NoPtr
    /\ heap[PreLookup("x").cell] = Number(1, 1)
    /\ heap[last.res.cell] = Number(2, 1)

\* the statements of the last block that were evaluated in its child frame
RanInChild ==
    LET IsStatement(e) ==
            /\ e.env = Len(last.pre.frames) + 1
            /\ \E i \in 1..Len(last.node.stmts) : last.node.stmts[i] = e.node
        ran == SelectSeq(last.trace, IsStatement)
    IN  [i \in 1..Len(ran) |-> ran[i].node]

(* C6: a block opens a child environment, evaluates its statements in program   *)
(* order in that environment, discards the results of all but the last and      *)
(* returns the last one's result; an empty block returns Undefined; an error    *)
(* stops the block and is propagated, and the statements after it are not       *)
(* evaluated.                                                                   *)
BlockRunsInOrderAndReturnsLast ==
    last.node.tag = "Block" =>
        LET s == last.node.stmts
        IN  /\ frames = last.pre.frames
            /\ last.trace[1] = [node |-> last.node, env |-> 1]
            /\ Len(s) = 0 =>
                  /\ last.out = "ok"
                  /\ last.res = undefined
                  /\ heap = last.pre.heap
                  /\ Len(last.trace) = 1
            /\ Len(s) > 0 =>
                  /\ RanInChild = SubSeq(s, 1, Len(RanInChild))
                  /\ Len(RanInChild) >= 1
                  /\ last.out = "ok" => Len(RanInChild) = Len(s)
                  /\ \A i \in 1..Len(RanInChild) :
                        s[i] = Call("if", << >>) =>
                            (last.out = "err" /\ Len(RanInChild) = i)
            /\ s = BlockValue =>
                  /\ last.out = "ok"
                  /\ last.res.vt = "ConstConst"
                  /\ heap[last.res.cell] = Number(1, 1)
                  /\ OldCellsKept
            /\ (s = BlockError /\ PreLookup("y").vt = "VarVar") =>
                  /\ last.out = "err"
                  /\ heap[PreLookup("y").cell] = Number(1, 1)

\* a block assigned 1 to the outer y, failed at its second statement, and the
\* third statement, which would have assigned 2, was not evaluated
BlockErrorWitness ==
    /\ last.node = Block(BlockError)
    /\ last.out = "err"
    /\ RanInChild = SubSeq(BlockError, 1, 2)
    /\ PreLookup("y").vt = "VarVar"
    /\ last.pre.heap[PreLookup("y").cell] = Number(0, 1)
    /\ heap[PreLookup("y").cell] = Number(1, 1)

(* C9: Delete with exactly one bare identifier removes that identifier's        *)
(* binding from the innermost frame only: a binding of the name in a parent     *)
(* frame stays and is the one a later lookup finds; with any other argument     *)
(* shape every frame stays as it was and no error is raised; Delete always      *)
(* returns Undefined.                                                           *)
DeleteRemovesFromInnermostOnly ==
    /\ (last.node.tag = "Call" /\ last.node.func = "delete") =>
          LET args == last.node.args
          IN  /\ last.out = "ok"
              /\ last.res = undefined
              /\ heap = last.pre.heap
              /\ Len(last.trace) = 1
              /\ IF Len(args) = 1 /\ args[1].tag = "Ident"
                 THEN frames = [last.pre.frames EXCEPT ![1].vars[args[1].name] = NoPtr]
                 ELSE frames = last.pre.frames
    /\ last.node = Block(BlockDelete) =>
          /\ last.out = "ok"
          /\ frames = last.pre.frames
          /\ RanInChild = BlockDelete
          /\ last.res = (IF PreLookup("x") # NoPtr THEN PreLookup("x") ELSE undefined)

\* x was bound in the root frame and again in a block; Delete in the block
\* removed the block's x, and the lookup after it found the root's x
DeleteWitness ==
    /\ last.node = Block(BlockDelete)
    /\ PreLookup("x") # NoPtr
    /\ last.res = PreLookup("x")
    /\ frames[1].vars["x"] = PreLookup("x")
    /\ heap[last.res.cell] = Number(1, 1)

====
